---- MODULE Spec2Model ----
(***************************************************************************)
(* Model of core/src/native/collection.rs: NativeProgramsCollection, the   *)
(* Adapter wrapped around each native program, and the MessageIdWrite      *)
(* capability handed out with an emitted message.                          *)
(*                                                                         *)
(* The native programs and the kernel that drives the collection are the   *)
(* environment: what a program yields when polled, and every argument the  *)
(* kernel passes, is an input chosen with \E.  What the collection does    *)
(* to each program (the calls it makes on `inner`) is recorded in `calls`. *)
(***************************************************************************)
EXTENDS Integers, Sequences, FiniteSets, TLC

\* ------------------------------------------------------------------ bounds
MaxProcs == 2      \* programs pushed at most
MaxMsgId == 2      \* MessageIds the kernel assigns are 1..MaxMsgId
NumHashes == 1     \* interface hashes other than the reserved one
MaxCaps == 1       \* capabilities outstanding at once

\* ------------------------------------------------------------- data model
\* redshirt_interface_interface::ffi::INTERFACE, the reserved hash.
INTERFACE == 0

\* One Pid more than programs, so that some process is never a member.
Pids == 1..(MaxProcs + 1)
MessageIds == 1..MaxMsgId
InterfaceHashes == {INTERFACE} \cup (1..NumHashes)
CapTags == 1..MaxCaps

None == <<>>
Some(x) == <<x>>

\* Result<T, ()>
Ok(x) == [tag |-> "Ok", v |-> x]
Err == [tag |-> "Err", v |-> <<>>]

\* EncodedMessage(Vec::new()), the value the router leaves behind in
\* mem::replace while a delivery is being tried.
EmptyMessage == <<>>

\* InterfaceMessage::Register(hash).encode(): a one-byte variant index
\* followed by the hash (the 32 bytes of a hash are one element here).
EncodeRegister(hash) == <<0, hash>>

\* InterfaceMessage::decode(message): Ok(Register(hash)) when the bytes are
\* exactly one variant index 0 and one hash, Err otherwise.
DecodeInterfaceMessage(message) ==
    IF Len(message) = 2 /\ message[1] = 0 /\ message[2] \in InterfaceHashes
    THEN Ok(message[2])
    ELSE Err

\* Bodies a program may emit: empty, every registration record, a record
\* with an unknown variant index, and a truncated record.
EmittedMessages ==
    {EmptyMessage, <<1, INTERFACE>>, <<0>>} \cup {EncodeRegister(h) : h \in InterfaceHashes}

\* Bodies the kernel delivers inbound.
Payloads == {EmptyMessage, <<255>>}
Responses == {Ok(p) : p \in Payloads} \cup {Err}

\* What a program's next_event future yields when polled once.  The
\* capability of an Emit (the program's own NativeProgramMessageIdWrite) is
\* named by a tag.
Pending == [type |-> "Pending"]
ProgramEvents ==
    [type : {"Emit"}, interface : InterfaceHashes, message : EmittedMessages,
     message_id_write : {None} \cup {Some(t) : t \in CapTags}]
    \cup [type : {"CancelMessage"}, message_id : MessageIds]
    \cup [type : {"Answer"}, message_id : MessageIds, answer : {Ok(<<255>>), Err}]

\* Adapter { inner, registered_interfaces, expected_responses } as created
\* by push; the program `inner` is the environment.
NewAdapter(pid) ==
    [pid |-> pid, registered_interfaces |-> {}, expected_responses |-> {}]

\* -------------------------------------------------------------- variables
VARIABLES
    processes,   \* Vec<(Pid, Box<Adapter>)>: sequence of adapters with their pid
    caps,        \* the MessageIdWriteAdapter values alive (handed out, not yet used)
    aborted,     \* a panic!/assert! has fired
    op,          \* the operation the driver ran last, with its arguments
    ret,         \* what that operation returned
    calls,       \* calls that operation made on the programs, in order
    trace,       \* adapters that operation visited, in order, with each outcome
    pre,         \* `processes` as it was when that operation started
    acked,       \* per adapter: ids acknowledged on its capabilities, not accepted since
    announced,   \* per adapter: hashes whose Register record it emitted and next_event returned
    locks,       \* the Mutex guards alive: which lock of which adapter, held by which context
    threads,     \* where each context stands inside the operation it is running
    driver       \* the kernel's main loop: its position and what it has done

vars == <<processes, caps, aborted, op, ret, calls, trace, pre, acked, announced,
          locks, threads, driver>>

\* Values of `threads` and `driver` while operations are run one at a time,
\* each as a whole, and the main loop is not looked at.
NoThreads == <<>>
NoDriver == [pc |-> "none"]

Idle == [name |-> "idle"]

Positions(procs) == 1..Len(procs)
PidsOf(procs) == {procs[i].pid : i \in Positions(procs)}

\* ------------------------------------------------------------------- push
\* Variant: push without its assert!.
push_NoAssert(procs, pid) ==
    [processes |-> Append(procs, NewAdapter(pid)), panicked |-> FALSE]

\* Variant: push that returns quietly when the pid exists.
push_DuplicateIgnored(procs, pid) ==
    IF \E i \in Positions(procs) : procs[i].pid = pid
    THEN [processes |-> procs, panicked |-> FALSE]
    ELSE [processes |-> Append(procs, NewAdapter(pid)), panicked |-> FALSE]

\* Variant: the new pair is inserted at the front of the Vec.
push_Prepends(procs, pid) ==
    IF \E i \in Positions(procs) : procs[i].pid = pid
    THEN [processes |-> procs, panicked |-> TRUE]
    ELSE [processes |-> <<NewAdapter(pid)>> \o procs, panicked |-> FALSE]

\* NativeProgramsCollection::push: the assert! fires when the pid exists,
\* before anything is pushed.
push(procs, pid) ==
    IF \E i \in Positions(procs) : procs[i].pid = pid
    THEN [processes |-> procs, panicked |-> TRUE]
    ELSE [processes |-> Append(procs, NewAdapter(pid)), panicked |-> FALSE]

\* core::mem::replace(dest, src): dest now holds src, the old value is returned.
mem_replace(dest, src) == [dest |-> src, old |-> dest]

\* -------------------------------------------------------------- adapters
\* Variant: registers the interface the Emit is sent on, not the decoded hash.
poll_next_event_RegistersEmitInterface(adapter, pos, yielded) ==
    IF yielded.type = "Emit"
    THEN LET decoded == DecodeInterfaceMessage(yielded.message)
             registered ==
                 IF yielded.interface = INTERFACE /\ decoded.tag = "Ok"
                 THEN adapter.registered_interfaces \cup {yielded.interface}
                 ELSE adapter.registered_interfaces
             write ==
                 IF yielded.message_id_write # None
                 THEN Some([inner |-> Some(yielded.message_id_write[1]),
                            expected_responses |-> pos])
                 ELSE None
         IN [adapter |-> [adapter EXCEPT !.registered_interfaces = registered],
             event |-> [type |-> "Emit", interface |-> yielded.interface,
                        message |-> yielded.message, message_id_write |-> write]]
    ELSE [adapter |-> adapter, event |-> yielded]

\* Variant: a registration replaces the registered set.
poll_next_event_OverwritesRegistered(adapter, pos, yielded) ==
    IF yielded.type = "Emit"
    THEN LET decoded == DecodeInterfaceMessage(yielded.message)
             registered ==
                 IF yielded.interface = INTERFACE /\ decoded.tag = "Ok"
                 THEN {decoded.v}
                 ELSE adapter.registered_interfaces
             write ==
                 IF yielded.message_id_write # None
                 THEN Some([inner |-> Some(yielded.message_id_write[1]),
                            expected_responses |-> pos])
                 ELSE None
         IN [adapter |-> [adapter EXCEPT !.registered_interfaces = registered],
             event |-> [type |-> "Emit", interface |-> yielded.interface,
                        message |-> yielded.message, message_id_write |-> write]]
    ELSE [adapter |-> adapter, event |-> yielded]

\* Variant: an Emit on the reserved interface that does not decode loses
\* its capability.
poll_next_event_DropsWriteOnDecodeError(adapter, pos, yielded) ==
    IF yielded.type = "Emit"
    THEN LET decoded == DecodeInterfaceMessage(yielded.message)
             registered ==
                 IF yielded.interface = INTERFACE /\ decoded.tag = "Ok"
                 THEN adapter.registered_interfaces \cup {decoded.v}
                 ELSE adapter.registered_interfaces
             write ==
                 IF /\ yielded.message_id_write # None
                    /\ ~(yielded.interface = INTERFACE /\ decoded.tag = "Err")
                 THEN Some([inner |-> Some(yielded.message_id_write[1]),
                            expected_responses |-> pos])
                 ELSE None
         IN [adapter |-> [adapter EXCEPT !.registered_interfaces = registered],
             event |-> [type |-> "Emit", interface |-> yielded.interface,
                        message |-> yielded.message, message_id_write |-> write]]
    ELSE [adapter |-> adapter, event |-> yielded]

\* Variant: a poll that finds the program pending forgets the adapter's
\* registrations.
poll_next_event_PendingForgets(adapter, pos, yielded) ==
    IF yielded.type = "Pending"
    THEN [adapter |-> [adapter EXCEPT !.registered_interfaces = {}], event |-> yielded]
    ELSE IF yielded.type = "Emit"
    THEN LET decoded == DecodeInterfaceMessage(yielded.message)
             registered ==
                 IF yielded.interface = INTERFACE /\ decoded.tag = "Ok"
                 THEN adapter.registered_interfaces \cup {decoded.v}
                 ELSE adapter.registered_interfaces
             write ==
                 IF yielded.message_id_write # None
                 THEN Some([inner |-> Some(yielded.message_id_write[1]),
                            expected_responses |-> pos])
                 ELSE None
         IN [adapter |-> [adapter EXCEPT !.registered_interfaces = registered],
             event |-> [type |-> "Emit", interface |-> yielded.interface,
                        message |-> yielded.message, message_id_write |-> write]]
    ELSE [adapter |-> adapter, event |-> yielded]

\* Variant: a registration that carries a capability is not recorded at
\* poll time (it would wait for the capability to be acknowledged).
poll_next_event_RegistersOnlyWithoutWrite(adapter, pos, yielded) ==
    IF yielded.type = "Emit"
    THEN LET decoded == DecodeInterfaceMessage(yielded.message)
             registered ==
                 IF /\ yielded.interface = INTERFACE /\ decoded.tag = "Ok"
                    /\ yielded.message_id_write = None
                 THEN adapter.registered_interfaces \cup {decoded.v}
                 ELSE adapter.registered_interfaces
             write ==
                 IF yielded.message_id_write # None
                 THEN Some([inner |-> Some(yielded.message_id_write[1]),
                            expected_responses |-> pos])
                 ELSE None
         IN [adapter |-> [adapter EXCEPT !.registered_interfaces = registered],
             event |-> [type |-> "Emit", interface |-> yielded.interface,
                        message |-> yielded.message, message_id_write |-> write]]
    ELSE [adapter |-> adapter, event |-> yielded]

\* Variant: a CancelMessage makes the adapter stop expecting the response.
poll_next_event_CancelForgets(adapter, pos, yielded) ==
    IF yielded.type = "Emit"
    THEN LET decoded == DecodeInterfaceMessage(yielded.message)
             registered ==
                 IF yielded.interface = INTERFACE /\ decoded.tag = "Ok"
                 THEN adapter.registered_interfaces \cup {decoded.v}
                 ELSE adapter.registered_interfaces
             write ==
                 IF yielded.message_id_write # None
                 THEN Some([inner |-> Some(yielded.message_id_write[1]),
                            expected_responses |-> pos])
                 ELSE None
         IN [adapter |-> [adapter EXCEPT !.registered_interfaces = registered],
             event |-> [type |-> "Emit", interface |-> yielded.interface,
                        message |-> yielded.message, message_id_write |-> write]]
    ELSE IF yielded.type = "CancelMessage"
    THEN [adapter |-> [adapter EXCEPT !.expected_responses = @ \ {yielded.message_id}],
          event |-> yielded]
    ELSE [adapter |-> adapter, event |-> yielded]

\* Variant: the body is decoded whatever interface the Emit is sent on.
poll_next_event_RegistersOnAnyInterface(adapter, pos, yielded) ==
    IF yielded.type = "Emit"
    THEN LET decoded == DecodeInterfaceMessage(yielded.message)
             registered ==
                 IF decoded.tag = "Ok"
                 THEN adapter.registered_interfaces \cup {decoded.v}
                 ELSE adapter.registered_interfaces
             write ==
                 IF yielded.message_id_write # None
                 THEN Some([inner |-> Some(yielded.message_id_write[1]),
                            expected_responses |-> pos])
                 ELSE None
         IN [adapter |-> [adapter EXCEPT !.registered_interfaces = registered],
             event |-> [type |-> "Emit", interface |-> yielded.interface,
                        message |-> yielded.message, message_id_write |-> write]]
    ELSE [adapter |-> adapter, event |-> yielded]

\* Adapter::poll_next_event on what the program yielded.  An Emit on the
\* reserved interface whose body decodes registers the decoded hash; a
\* program capability is wrapped into a MessageIdWriteAdapter that points at
\* this adapter's expected_responses (`pos` stands for that reference).
poll_next_event(adapter, pos, yielded) ==
    IF yielded.type = "Emit"
    THEN LET decoded == DecodeInterfaceMessage(yielded.message)
             registered ==
                 IF yielded.interface = INTERFACE /\ decoded.tag = "Ok"
                 THEN adapter.registered_interfaces \cup {decoded.v}
                 ELSE adapter.registered_interfaces
             write ==
                 IF yielded.message_id_write # None
                 THEN Some([inner |-> Some(yielded.message_id_write[1]),
                            expected_responses |-> pos])
                 ELSE None
         IN [adapter |-> [adapter EXCEPT !.registered_interfaces = registered],
             event |-> [type |-> "Emit", interface |-> yielded.interface,
                        message |-> yielded.message, message_id_write |-> write]]
    ELSE [adapter |-> adapter, event |-> yielded]

\* Variant: the registered set is not consulted.
deliver_interface_message_AcceptsAny(adapter, pos, interface, message_id, emitter_pid, message) ==
    [ok |-> TRUE, back |-> EmptyMessage,
     calls |-> <<[pos |-> pos, fn |-> "interface_message",
                  args |-> <<interface, message_id, emitter_pid, message>>]>>]

\* Adapter::deliver_interface_message: Ok(()) after calling the program when
\* the interface is registered, Err(message) otherwise.
deliver_interface_message(adapter, pos, interface, message_id, emitter_pid, message) ==
    IF interface \in adapter.registered_interfaces
    THEN [ok |-> TRUE, back |-> EmptyMessage,
          calls |-> <<[pos |-> pos, fn |-> "interface_message",
                       args |-> <<interface, message_id, emitter_pid, message>>]>>]
    ELSE [ok |-> FALSE, back |-> message, calls |-> <<>>]

\* Variant: `contains` in place of `remove`.
deliver_response_KeepsExpected(adapter, pos, message_id, response) ==
    IF message_id \in adapter.expected_responses
    THEN [adapter |-> adapter, ok |-> TRUE, back |-> Err,
          calls |-> <<[pos |-> pos, fn |-> "message_response",
                       args |-> <<message_id, response>>]>>]
    ELSE [adapter |-> adapter, ok |-> FALSE, back |-> response, calls |-> <<>>]

\* Variant: the result of `remove` is not looked at.
deliver_response_AcceptsAny(adapter, pos, message_id, response) ==
    [adapter |-> [adapter EXCEPT !.expected_responses = @ \ {message_id}],
     ok |-> TRUE, back |-> Err,
     calls |-> <<[pos |-> pos, fn |-> "message_response",
                  args |-> <<message_id, response>>]>>]

\* Variant: accepting a response empties the expected set.
deliver_response_ClearsExpected(adapter, pos, message_id, response) ==
    IF message_id \in adapter.expected_responses
    THEN [adapter |-> [adapter EXCEPT !.expected_responses = {}],
          ok |-> TRUE, back |-> Err,
          calls |-> <<[pos |-> pos, fn |-> "message_response",
                       args |-> <<message_id, response>>]>>]
    ELSE [adapter |-> adapter, ok |-> FALSE, back |-> response, calls |-> <<>>]

\* Adapter::deliver_response: HashSet::remove tells whether the id was
\* expected; if so the program is called and Ok(()) returned, otherwise
\* Err(response).
deliver_response(adapter, pos, message_id, response) ==
    IF message_id \in adapter.expected_responses
    THEN [adapter |-> [adapter EXCEPT !.expected_responses = @ \ {message_id}],
          ok |-> TRUE, back |-> Err,
          calls |-> <<[pos |-> pos, fn |-> "message_response",
                       args |-> <<message_id, response>>]>>]
    ELSE [adapter |-> adapter, ok |-> FALSE, back |-> response, calls |-> <<>>]

\* Variant: one expected_responses set shared by the whole collection.
acknowledge_InsertsEverywhere(procs, write, id) ==
    IF write.inner = None
    THEN [processes |-> procs, calls |-> <<>>, unreachable |-> TRUE,
          was_inserted |-> FALSE, write |-> write]
    ELSE LET pos == write.expected_responses IN
         [processes |-> [p \in Positions(procs) |->
                            [procs[p] EXCEPT !.expected_responses = @ \cup {id}]],
          calls |-> <<[pos |-> pos, fn |-> "acknowledge", args |-> <<write.inner[1], id>>]>>,
          unreachable |-> FALSE,
          was_inserted |-> id \notin procs[pos].expected_responses,
          write |-> [write EXCEPT !.inner = None]]

\* Variant: the inner capability is cloned out instead of taken.
acknowledge_KeepsInner(procs, write, id) ==
    IF write.inner = None
    THEN [processes |-> procs, calls |-> <<>>, unreachable |-> TRUE,
          was_inserted |-> FALSE, write |-> write]
    ELSE LET pos == write.expected_responses IN
         [processes |-> [procs EXCEPT ![pos].expected_responses = @ \cup {id}],
          calls |-> <<[pos |-> pos, fn |-> "acknowledge", args |-> <<write.inner[1], id>>]>>,
          unreachable |-> FALSE,
          was_inserted |-> id \notin procs[pos].expected_responses,
          write |-> write]

\* Variant: the capability points at the expected_responses of the first
\* adapter of the collection instead of the adapter that was polled.
acknowledge_InsertsAtFirst(procs, write, id) ==
    IF write.inner = None
    THEN [processes |-> procs, calls |-> <<>>, unreachable |-> TRUE,
          was_inserted |-> FALSE, write |-> write]
    ELSE LET pos == write.expected_responses IN
         [processes |-> [procs EXCEPT ![1].expected_responses = @ \cup {id}],
          calls |-> <<[pos |-> pos, fn |-> "acknowledge", args |-> <<write.inner[1], id>>]>>,
          unreachable |-> FALSE,
          was_inserted |-> id \notin procs[1].expected_responses,
          write |-> [write EXCEPT !.inner = None]]

\* MessageIdWriteAdapter::acknowledge(&mut self, id): inner.take() must be
\* Some (otherwise unreachable!()), the program's capability is
\* acknowledged, then the id is inserted; `was_inserted` is what the
\* debug_assert! looks at and `write` is the capability as the call leaves it.
acknowledge(procs, write, id) ==
    IF write.inner = None
    THEN [processes |-> procs, calls |-> <<>>, unreachable |-> TRUE,
          was_inserted |-> FALSE, write |-> write]
    ELSE LET pos == write.expected_responses IN
         [processes |-> [procs EXCEPT ![pos].expected_responses = @ \cup {id}],
          calls |-> <<[pos |-> pos, fn |-> "acknowledge", args |-> <<write.inner[1], id>>]>>,
          unreachable |-> FALSE,
          was_inserted |-> id \notin procs[pos].expected_responses,
          write |-> [write EXCEPT !.inner = None]]

\* Variant: the id is inserted before the program's capability is told.
acknowledge_steps_InsertsFirst(procs, write, id) ==
    IF write.inner = None
    THEN <<[at |-> "unreachable", processes |-> procs, calls |-> <<>>,
            was_inserted |-> FALSE, write |-> write]>>
    ELSE LET pos == write.expected_responses
             call == [pos |-> pos, fn |-> "acknowledge", args |-> <<write.inner[1], id>>]
             taken == [write EXCEPT !.inner = None]
             inserted == [procs EXCEPT ![pos].expected_responses = @ \cup {id}]
         IN <<[at |-> "forwarded", processes |-> inserted, calls |-> <<>>,
               was_inserted |-> id \notin procs[pos].expected_responses, write |-> taken],
              [at |-> "inserted", processes |-> inserted, calls |-> <<call>>,
               was_inserted |-> id \notin procs[pos].expected_responses,
               write |-> taken]>>

\* MessageIdWriteAdapter::acknowledge statement by statement: what the
\* collection, the calls made and the capability are after the match on
\* inner.take() ("forwarded", or "unreachable" when inner was None), and
\* after the insert into expected_responses ("inserted").
acknowledge_steps(procs, write, id) ==
    IF write.inner = None
    THEN <<[at |-> "unreachable", processes |-> procs, calls |-> <<>>,
            was_inserted |-> FALSE, write |-> write]>>
    ELSE LET pos == write.expected_responses
             call == [pos |-> pos, fn |-> "acknowledge", args |-> <<write.inner[1], id>>]
             taken == [write EXCEPT !.inner = None]
             inserted == [procs EXCEPT ![pos].expected_responses = @ \cup {id}]
         IN <<[at |-> "forwarded", processes |-> procs, calls |-> <<call>>,
               was_inserted |-> FALSE, write |-> taken],
              [at |-> "inserted", processes |-> inserted, calls |-> <<call>>,
               was_inserted |-> id \notin procs[pos].expected_responses,
               write |-> taken]>>

\* Variant: a Drop impl that forgets what the owning adapter expects.
drop_write_ClearsExpected(procs, write) ==
    [processes |-> [procs EXCEPT ![write.expected_responses].expected_responses = {}],
     calls |-> <<>>]

\* Dropping a MessageIdWriteAdapter: the struct has no Drop impl, so its
\* fields are dropped and neither the collection nor the program is touched.
drop_write(procs, write) == [processes |-> procs, calls |-> <<>>]

\* ------------------------------------------------------------- collection
\* The loop of next_event's poll_fn from position i on; `yields[i]` is what
\* program i yields if it is polled, and `polled` is the collection once
\* adapter i has been polled.  The first Ready ends the loop; an Emit is
\* tagged with the pid of its adapter.
RECURSIVE next_event_from(_, _, _)
next_event_from(procs, yields, i) ==
    IF i > Len(procs)
    THEN [processes |-> procs, event |-> Pending, visited |-> <<>>]
    ELSE LET r == poll_next_event(procs[i], i, yields[i])
             polled == [procs EXCEPT ![i] = r.adapter]
         IN
         IF r.event.type = "Pending"
         THEN LET rest == next_event_from(polled, yields, i + 1)
              IN [rest EXCEPT !.visited = <<[pos |-> i, ok |-> FALSE]>> \o @]
         ELSE [processes |-> polled,
               event |-> IF r.event.type = "Emit"
                         THEN [type |-> "Emit", emitter_pid |-> procs[i].pid,
                               interface |-> r.event.interface,
                               message |-> r.event.message,
                               message_id_write |-> r.event.message_id_write]
                         ELSE r.event,
               visited |-> <<[pos |-> i, ok |-> TRUE]>>]

\* Variant: a pass that found every adapter pending is run once more.
next_event_SecondPass(procs, yields) ==
    LET r == next_event_from(procs, yields, 1)
    IN IF r.event.type = "Pending" THEN [r EXCEPT !.visited = @ \o @] ELSE r

\* Variant: the loop polls the remaining adapters after the first Ready.
next_event_PollsAll(procs, yields) ==
    [next_event_from(procs, yields, 1) EXCEPT
         !.visited = [k \in Positions(procs) |->
                         [pos |-> k, ok |-> yields[k].type # "Pending"]]]

\* Variant: an Emit is tagged with the pid of the first pair of the Vec.
next_event_TagsFirstPid(procs, yields) ==
    LET r == next_event_from(procs, yields, 1)
    IN IF r.event.type = "Emit"
       THEN [r EXCEPT !.event.emitter_pid = procs[1].pid]
       ELSE r

\* Variant: the loop keeps the last Ready it meets instead of returning at
\* the first.
next_event_ReturnsLastReady(procs, yields) ==
    LET readies == {i \in Positions(procs) : yields[i].type # "Pending"}
    IN IF readies = {}
       THEN next_event_from(procs, yields, 1)
       ELSE LET last == CHOOSE i \in readies : \A j \in readies : j <= i
            IN next_event_from(procs, [i \in Positions(procs) |->
                                          IF i = last THEN yields[i] ELSE Pending], 1)

\* Variant: the CancelMessage arm does not return, so the event is consumed
\* from the program and never handed out.
next_event_SwallowsCancelMessage(procs, yields) ==
    LET r == next_event_from(procs, yields, 1)
    IN IF r.event.type = "CancelMessage" THEN [r EXCEPT !.event = Pending] ELSE r

next_event(procs, yields) == next_event_from(procs, yields, 1)

\* Variant: a declined message is not moved back into `message`.
RECURSIVE interface_message_from_LeavesPlaceholder(_, _, _, _, _, _)
interface_message_from_LeavesPlaceholder(procs, interface, message_id, emitter_pid, message, i) ==
    IF i > Len(procs)
    THEN [panicked |-> TRUE, calls |-> <<>>, visited |-> <<>>]
    ELSE LET moved == mem_replace(message, EmptyMessage)
             msg == moved.old
             r == deliver_interface_message(procs[i], i, interface, message_id,
                                            emitter_pid, msg)
         IN IF r.ok
            THEN [panicked |-> FALSE, calls |-> r.calls,
                  visited |-> <<[pos |-> i, ok |-> TRUE]>>]
            ELSE LET rest == interface_message_from_LeavesPlaceholder(
                                 procs, interface, message_id, emitter_pid,
                                 moved.dest, i + 1)
                 IN [rest EXCEPT !.visited = <<[pos |-> i, ok |-> FALSE]>> \o @]

\* The loop of interface_message from position i on.  `message` is the
\* local of that name: mem::replace moves it into `msg` and leaves an empty
\* message, and a declined delivery moves it back.
RECURSIVE interface_message_from(_, _, _, _, _, _)
interface_message_from(procs, interface, message_id, emitter_pid, message, i) ==
    IF i > Len(procs)
    THEN [panicked |-> TRUE, calls |-> <<>>, visited |-> <<>>]
    ELSE LET moved == mem_replace(message, EmptyMessage)
             msg == moved.old
             r == deliver_interface_message(procs[i], i, interface, message_id,
                                            emitter_pid, msg)
         IN IF r.ok
            THEN [panicked |-> FALSE, calls |-> r.calls,
                  visited |-> <<[pos |-> i, ok |-> TRUE]>>]
            ELSE LET rest == interface_message_from(procs, interface, message_id,
                                                    emitter_pid, r.back, i + 1)
                 IN [rest EXCEPT !.visited = <<[pos |-> i, ok |-> FALSE]>> \o @]

\* Variant: the loop goes on after an adapter accepted.
RECURSIVE interface_message_Broadcast_from(_, _, _, _, _, _)
interface_message_Broadcast_from(procs, interface, message_id, emitter_pid, message, i) ==
    IF i > Len(procs)
    THEN [panicked |-> FALSE, calls |-> <<>>, visited |-> <<>>]
    ELSE LET r == deliver_interface_message(procs[i], i, interface, message_id,
                                            emitter_pid, message)
             rest == interface_message_Broadcast_from(procs, interface, message_id,
                                                      emitter_pid, message, i + 1)
         IN [panicked |-> FALSE, calls |-> r.calls \o rest.calls,
             visited |-> <<[pos |-> i, ok |-> r.ok]>> \o rest.visited]

interface_message_Broadcast(procs, interface, message_id, emitter_pid, message) ==
    LET r == interface_message_Broadcast_from(procs, interface, message_id,
                                              emitter_pid, message, 1)
    IN [r EXCEPT !.panicked = (r.calls = <<>>)]

\* Variant: no panic!() after the loop.
interface_message_DropsUnroutable(procs, interface, message_id, emitter_pid, message) ==
    [interface_message_from(procs, interface, message_id, emitter_pid, message, 1)
         EXCEPT !.panicked = FALSE]

\* Variant: the Vec is walked from its end, so the last adapter that
\* registered the interface gets the message.
interface_message_LastMatch(procs, interface, message_id, emitter_pid, message) ==
    LET regs == {p \in Positions(procs) : interface \in procs[p].registered_interfaces}
    IN IF regs = {}
       THEN interface_message_from(procs, interface, message_id, emitter_pid, message, 1)
       ELSE LET last == CHOOSE p \in regs : \A q \in regs : q <= p
            IN [panicked |-> FALSE,
                calls |-> <<[pos |-> last, fn |-> "interface_message",
                             args |-> <<interface, message_id, emitter_pid, message>>]>>,
                visited |-> <<[pos |-> last, ok |-> TRUE]>>]

interface_message(procs, interface, message_id, emitter_pid, message) ==
    interface_message_from(procs, interface, message_id, emitter_pid, message, 1)

\* process_destroyed: every adapter forwards to its program.
RECURSIVE process_destroyed_from(_, _, _)
process_destroyed_from(procs, pid, i) ==
    IF i > Len(procs)
    THEN <<>>
    ELSE <<[pos |-> i, fn |-> "process_destroyed", args |-> <<pid>>]>>
         \o process_destroyed_from(procs, pid, i + 1)

\* Variant: the program whose own pid is destroyed is not told.
process_destroyed_SkipsDestroyed(procs, pid) ==
    SelectSeq(process_destroyed_from(procs, pid, 1), LAMBDA c : procs[c.pos].pid # pid)

process_destroyed(procs, pid) == process_destroyed_from(procs, pid, 1)

\* Variant: a declined response is not moved back into `response`.
RECURSIVE message_response_from_LeavesPlaceholder(_, _, _, _)
message_response_from_LeavesPlaceholder(procs, message_id, response, i) ==
    IF i > Len(procs)
    THEN [processes |-> procs, panicked |-> TRUE, calls |-> <<>>, visited |-> <<>>]
    ELSE LET moved == mem_replace(response, Ok(EmptyMessage))
             msg == moved.old
             r == deliver_response(procs[i], i, message_id, msg)
         IN IF r.ok
            THEN [processes |-> [procs EXCEPT ![i] = r.adapter], panicked |-> FALSE,
                  calls |-> r.calls, visited |-> <<[pos |-> i, ok |-> TRUE]>>]
            ELSE LET rest == message_response_from_LeavesPlaceholder(
                                 procs, message_id, moved.dest, i + 1)
                 IN [rest EXCEPT !.visited = <<[pos |-> i, ok |-> FALSE]>> \o @]

\* The loop of message_response from position i on, with the same
\* mem::replace hand-over of `response`.
RECURSIVE message_response_from(_, _, _, _)
message_response_from(procs, message_id, response, i) ==
    IF i > Len(procs)
    THEN [processes |-> procs, panicked |-> TRUE, calls |-> <<>>, visited |-> <<>>]
    ELSE LET moved == mem_replace(response, Ok(EmptyMessage))
             msg == moved.old
             r == deliver_response(procs[i], i, message_id, msg)
         IN IF r.ok
            THEN [processes |-> [procs EXCEPT ![i] = r.adapter], panicked |-> FALSE,
                  calls |-> r.calls, visited |-> <<[pos |-> i, ok |-> TRUE]>>]
            ELSE LET rest == message_response_from(procs, message_id, r.back, i + 1)
                 IN [rest EXCEPT !.visited = <<[pos |-> i, ok |-> FALSE]>> \o @]

\* Variant: no panic!() after the loop.
message_response_DropsUnroutable(procs, message_id, response) ==
    [message_response_from(procs, message_id, response, 1) EXCEPT !.panicked = FALSE]

message_response(procs, message_id, response) ==
    message_response_from(procs, message_id, response, 1)

Unit == [tag |-> "unit"]
Panic == [tag |-> "panic"]
NoValue == [tag |-> "none"]
Outcome(panicked) == IF panicked THEN Panic ELSE Unit

Init ==
    /\ processes = <<>>
    /\ caps = {}
    /\ aborted = FALSE
    /\ op = Idle
    /\ ret = NoValue
    /\ calls = <<>>
    /\ trace = <<>>
    /\ pre = <<>>
    /\ acked = <<>>
    /\ announced = <<>>
    /\ locks = {}
    /\ threads = NoThreads
    /\ driver = NoDriver

\* The driver can start an operation: nothing has panicked and the result
\* of the previous operation has been consumed.
CanCall == ~aborted /\ op = Idle

\* push and process_destroyed take &mut self: no borrow of the collection
\* (an unused capability) can be alive.  Pids are only ever compared for
\* equality, so a pid that is new to the collection is the least such pid.
Push(pid) ==
    /\ CanCall
    /\ caps = {}
    /\ pid \notin PidsOf(processes) =>
           /\ Len(processes) < MaxProcs
           /\ \A other \in Pids \ PidsOf(processes) : pid <= other
    /\ LET r == push(processes, pid) IN
        /\ processes' = r.processes
        /\ aborted' = r.panicked
        /\ ret' = Outcome(r.panicked)
        /\ acked' = IF r.panicked THEN acked ELSE Append(acked, {})
        /\ announced' = IF r.panicked THEN announced ELSE Append(announced, {})
    /\ op' = [name |-> "push", pid |-> pid]
    /\ calls' = <<>>
    /\ trace' = <<>>
    /\ pre' = processes
    /\ UNCHANGED caps
    /\ UNCHANGED <<locks, threads, driver>>

\* Tags of the program capabilities wrapped by the capabilities alive.
TagsInUse == {c.inner[1] : c \in caps}

\* One poll of the future returned by next_event.  The programs in `ready`
\* yield `yielded` if polled, the others are pending.  A capability a
\* program hands out is a new object: its tag is the least one not in use.
NextEvent(ready, yielded) ==
    /\ CanCall
    /\ ready \subseteq Positions(processes)
    /\ (yielded.type = "Emit" /\ yielded.message_id_write # None) =>
           /\ CapTags \ TagsInUse # {}
           /\ \A t \in CapTags \ TagsInUse : yielded.message_id_write[1] <= t
    /\ LET yields == [i \in Positions(processes) |->
                         IF i \in ready THEN yielded ELSE Pending]
           r == next_event(processes, yields)
       IN /\ processes' = r.processes
          /\ ret' = IF r.event.type = "Pending"
                    THEN [tag |-> "Pending"]
                    ELSE [tag |-> "Ready", event |-> r.event]
          /\ caps' = IF r.event.type = "Emit" /\ r.event.message_id_write # None
                     THEN caps \cup {r.event.message_id_write[1]}
                     ELSE caps
          /\ trace' = r.visited
          /\ announced' =
                 IF r.event.type = "Emit" /\ r.event.interface = INTERFACE
                 THEN [i \in 1..Len(announced) |->
                          IF i = r.visited[Len(r.visited)].pos
                          THEN announced[i] \cup
                                   {h \in InterfaceHashes : r.event.message = EncodeRegister(h)}
                          ELSE announced[i]]
                 ELSE announced
    /\ op' = [name |-> "next_event", ready |-> ready, yielded |-> yielded]
    /\ calls' = <<>>
    /\ pre' = processes
    /\ UNCHANGED <<aborted, acked>>
    /\ UNCHANGED <<locks, threads, driver>>

\* The kernel uses a capability it holds.  acknowledge takes the capability
\* by value, so it is gone afterwards.  The debug_assert! panics in a build
\* with debug assertions and is compiled out otherwise.
Acknowledge(write, id, debug_assertions) ==
    /\ CanCall
    /\ write \in caps
    /\ LET r == acknowledge(processes, write, id) IN
        /\ processes' = r.processes
        /\ calls' = r.calls
        /\ aborted' = (r.unreachable \/ (debug_assertions /\ ~r.was_inserted))
        /\ ret' = Outcome(aborted')
        /\ acked' = IF r.unreachable THEN acked
                    ELSE [acked EXCEPT ![write.expected_responses] = @ \cup {id}]
    /\ caps' = caps \ {write}
    /\ op' = [name |-> "acknowledge", write |-> write, id |-> id]
    /\ trace' = <<>>
    /\ pre' = processes
    /\ UNCHANGED announced
    /\ UNCHANGED <<locks, threads, driver>>

\* The kernel drops a capability without using it.
DropCapability(write) ==
    /\ CanCall
    /\ write \in caps
    /\ LET r == drop_write(processes, write) IN
        /\ processes' = r.processes
        /\ calls' = r.calls
    /\ caps' = caps \ {write}
    /\ op' = [name |-> "drop", write |-> write]
    /\ ret' = Unit
    /\ trace' = <<>>
    /\ pre' = processes
    /\ UNCHANGED <<aborted, acked, announced>>
    /\ UNCHANGED <<locks, threads, driver>>

InterfaceMessage(interface, message_id, emitter_pid, message) ==
    /\ CanCall
    /\ LET r == interface_message(processes, interface, message_id, emitter_pid, message) IN
        /\ aborted' = r.panicked
        /\ ret' = Outcome(r.panicked)
        /\ calls' = r.calls
        /\ trace' = r.visited
    /\ op' = [name |-> "interface_message", interface |-> interface,
              message_id |-> message_id, emitter_pid |-> emitter_pid,
              message |-> message]
    /\ pre' = processes
    /\ UNCHANGED <<processes, caps, acked, announced>>
    /\ UNCHANGED <<locks, threads, driver>>

ProcessDestroyed(pid) ==
    /\ CanCall
    /\ caps = {}
    /\ calls' = process_destroyed(processes, pid)
    /\ op' = [name |-> "process_destroyed", pid |-> pid]
    /\ ret' = Unit
    /\ trace' = <<>>
    /\ pre' = processes
    /\ UNCHANGED <<processes, caps, aborted, acked, announced>>
    /\ UNCHANGED <<locks, threads, driver>>

\* `owed` notes, for each adapter visited, whether the id had been
\* acknowledged on one of its capabilities and not accepted since.
MessageResponse(message_id, response) ==
    /\ CanCall
    /\ LET r == message_response(processes, message_id, response) IN
        /\ processes' = r.processes
        /\ aborted' = r.panicked
        /\ ret' = Outcome(r.panicked)
        /\ calls' = r.calls
        /\ trace' = [k \in 1..Len(r.visited) |->
                        [pos |-> r.visited[k].pos, ok |-> r.visited[k].ok,
                         owed |-> message_id \in acked[r.visited[k].pos]]]
        /\ acked' = [i \in 1..Len(acked) |->
                        IF \E k \in 1..Len(r.visited) :
                               r.visited[k].pos = i /\ r.visited[k].ok
                        THEN acked[i] \ {message_id}
                        ELSE acked[i]]
    /\ op' = [name |-> "message_response", message_id |-> message_id,
              response |-> response]
    /\ pre' = processes
    /\ UNCHANGED <<caps, announced>>
    /\ UNCHANGED <<locks, threads, driver>>

\* The driver drops the value the last operation returned.
Consume ==
    /\ ~aborted
    /\ op # Idle
    /\ op' = Idle
    /\ ret' = NoValue
    /\ calls' = <<>>
    /\ trace' = <<>>
    /\ pre' = <<>>
    /\ UNCHANGED <<processes, caps, aborted, acked, announced>>
    /\ UNCHANGED <<locks, threads, driver>>

Next ==
    \/ \E pid \in Pids : Push(pid)
    \/ \E ready \in SUBSET Positions(processes) :
           IF ready = {}
           THEN NextEvent(ready, Pending)
           ELSE \E yielded \in ProgramEvents : NextEvent(ready, yielded)
    \/ \E write \in caps, id \in MessageIds, debug_assertions \in BOOLEAN :
           Acknowledge(write, id, debug_assertions)
    \/ \E write \in caps : DropCapability(write)
    \/ \E interface \in InterfaceHashes, message_id \in {None} \cup {Some(m) : m \in MessageIds},
          emitter_pid \in Pids, message \in Payloads :
           InterfaceMessage(interface, message_id, emitter_pid, message)
    \/ \E pid \in Pids : ProcessDestroyed(pid)
    \/ \E message_id \in MessageIds, response \in Responses :
           MessageResponse(message_id, response)
    \/ Consume

Spec == Init /\ [][Next]_vars

\* ------------------------------------------- acknowledge on one capability
\* AbstractMessageIdWrite::acknowledge takes &mut self, so inside the module
\* one MessageIdWriteAdapter can be acknowledged again after it was used
\* (the public wrapper takes self by value and cannot).  This specification
\* starts from a collection with any expected_responses sets and one fresh
\* capability, and acknowledges that capability time after time.
Collections ==
    UNION {{[p \in 1..n |-> [pid |-> p, registered_interfaces |-> {},
                             expected_responses |-> expected[p]]] :
               expected \in [1..n -> SUBSET MessageIds]} : n \in 1..MaxProcs}

InitAcknowledge ==
    /\ processes \in Collections
    /\ \E pos \in Positions(processes) :
           caps = {[inner |-> Some(1), expected_responses |-> pos]}
    /\ aborted = FALSE
    /\ op = Idle
    /\ ret = NoValue
    /\ calls = <<>>
    /\ trace = <<>>
    /\ pre = <<>>
    /\ acked = [p \in Positions(processes) |-> processes[p].expected_responses]
    /\ announced = [p \in Positions(processes) |-> {}]
    /\ locks = {}
    /\ threads = NoThreads
    /\ driver = NoDriver

\* self.write.acknowledge(id) on the boxed capability, which stays where it
\* is; `again` notes that the capability had been acknowledged before.
AcknowledgeInPlace(write, id, debug_assertions) ==
    /\ ~aborted
    /\ write \in caps
    /\ LET r == acknowledge(processes, write, id) IN
        /\ processes' = r.processes
        /\ calls' = r.calls
        /\ aborted' = (r.unreachable \/ (debug_assertions /\ ~r.was_inserted))
        /\ ret' = Outcome(aborted')
        /\ acked' = IF r.unreachable THEN acked
                    ELSE [acked EXCEPT ![write.expected_responses] = @ \cup {id}]
        /\ caps' = (caps \ {write}) \cup {r.write}
    /\ op' = [name |-> "acknowledge", write |-> write, id |-> id,
              again |-> (op.name = "acknowledge")]
    /\ trace' = <<>>
    /\ pre' = processes
    /\ UNCHANGED announced
    /\ UNCHANGED <<locks, threads, driver>>

NextAcknowledge ==
    \E write \in caps, id \in MessageIds, debug_assertions \in BOOLEAN :
        AcknowledgeInPlace(write, id, debug_assertions)

SpecAcknowledge == InitAcknowledge /\ [][NextAcknowledge]_vars

\* --------------------------------------------- acknowledge, step by step
\* The same starting states, with acknowledge run one statement at a time:
\* AcknowledgeBegin runs it up to the return of the program's own
\* acknowledge, AcknowledgeFinish runs the insert and the debug_assert!.
AcknowledgeBegin(write, id) ==
    /\ ~aborted
    /\ op = Idle \/ (op.name = "acknowledge" /\ op.at = "inserted")
    /\ write \in caps
    /\ LET s == acknowledge_steps(processes, write, id)[1] IN
        /\ processes' = s.processes
        /\ calls' = s.calls
        /\ aborted' = (s.at = "unreachable")
        /\ ret' = IF aborted' THEN Panic ELSE NoValue
        /\ caps' = (caps \ {write}) \cup {s.write}
        /\ op' = [name |-> "acknowledge", write |-> write, id |-> id, at |-> s.at]
    /\ trace' = <<>>
    /\ pre' = processes
    /\ UNCHANGED <<acked, announced>>
    /\ UNCHANGED <<locks, threads, driver>>

AcknowledgeFinish(debug_assertions) ==
    /\ ~aborted
    /\ op.name = "acknowledge"
    /\ op.at = "forwarded"
    /\ LET s == acknowledge_steps(pre, op.write, op.id)[2] IN
        /\ processes' = s.processes
        /\ calls' = s.calls
        /\ aborted' = (debug_assertions /\ ~s.was_inserted)
        /\ ret' = Outcome(aborted')
        /\ op' = [op EXCEPT !.at = s.at]
    /\ acked' = [acked EXCEPT ![op.write.expected_responses] = @ \cup {op.id}]
    /\ UNCHANGED <<caps, trace, pre, announced>>
    /\ UNCHANGED <<locks, threads, driver>>

NextAcknowledgeSteps ==
    \/ \E write \in caps, id \in MessageIds : AcknowledgeBegin(write, id)
    \/ \E debug_assertions \in BOOLEAN : AcknowledgeFinish(debug_assertions)

SpecAcknowledgeSteps == InitAcknowledge /\ [][NextAcknowledgeSteps]_vars

\* ------------------------------------------------ operations and locks
\* The two sets of an adapter are each behind a Mutex.  Here the adapter
\* functions are run one lock operation at a time, by two contexts: "bus"
\* runs one poll of next_event, one interface_message or one
\* message_response, and "ack" runs acknowledge on a capability handed out
\* earlier.  What a function does to the sets (its effect) is what the
\* operators above compute; a script says where the locks are taken and
\* dropped around it.
Lock(pos, field) == [pos |-> pos, field |-> field]
Acquire(lock) == [do |-> "acquire", lock |-> lock]
Release(lock) == [do |-> "release", lock |-> lock]
Effect == [do |-> "effect"]
Forward == [do |-> "forward"]

\* Adapter::poll_next_event: registered_interfaces is locked only to insert
\* a decoded registration; the guard dies with the `if let` block.
poll_next_event_script(pos, yielded) ==
    IF /\ yielded.type = "Emit"
       /\ yielded.interface = INTERFACE
       /\ DecodeInterfaceMessage(yielded.message).tag = "Ok"
    THEN <<Acquire(Lock(pos, "registered_interfaces")), Effect,
           Release(Lock(pos, "registered_interfaces"))>>
    ELSE <<Effect>>

\* Adapter::deliver_interface_message: the guard on registered_interfaces
\* lives until the function returns, across the call of the program.
deliver_interface_message_script(pos) ==
    <<Acquire(Lock(pos, "registered_interfaces")), Effect,
      Release(Lock(pos, "registered_interfaces"))>>

\* Variant: deliver_response looks at registered_interfaces while it holds
\* expected_responses.
deliver_response_script_AlsoLocksRegistered(pos) ==
    <<Acquire(Lock(pos, "expected_responses")),
      Acquire(Lock(pos, "registered_interfaces")), Effect,
      Release(Lock(pos, "registered_interfaces")),
      Release(Lock(pos, "expected_responses"))>>

\* Adapter::deliver_response: the guard on expected_responses lives until
\* the function returns, across the remove and the call of the program.
deliver_response_script(pos) ==
    <<Acquire(Lock(pos, "expected_responses")), Effect,
      Release(Lock(pos, "expected_responses"))>>

\* MessageIdWriteAdapter::acknowledge: the program's capability is told
\* with no lock held; the guard on expected_responses is a temporary of the
\* insert statement.
acknowledge_script(write) ==
    <<Forward, Acquire(Lock(write.expected_responses, "expected_responses")),
      Effect, Release(Lock(write.expected_responses, "expected_responses"))>>

Contexts == {"bus", "ack"}
HeldBy(c) == {l \in locks : l.by = c}
Holder(lock) == {l.by : l \in {h \in locks : h.lock = lock}}

\* Adapters with any registrations and expectations already made.
LockCollections ==
    UNION {{[p \in 1..n |-> [pid |-> p, registered_interfaces |-> registered[p],
                             expected_responses |-> expected[p]]] :
               registered \in [1..n -> SUBSET (InterfaceHashes \ {INTERFACE})],
               expected \in [1..n -> SUBSET MessageIds]} : n \in 1..MaxProcs}

\* What the programs may yield to the poll run by "bus"; the capability in
\* play is the one "ack" holds.
LockEvents == {e \in ProgramEvents : e.type = "Emit" => e.message_id_write = None}

InitLocks ==
    /\ processes \in LockCollections
    /\ \E pos \in Positions(processes) :
           caps = {[inner |-> Some(1), expected_responses |-> pos]}
    /\ aborted = FALSE
    /\ op = Idle
    /\ ret = NoValue
    /\ calls = <<>>
    /\ trace = <<>>
    /\ pre = processes
    /\ acked = [p \in Positions(processes) |-> processes[p].expected_responses]
    /\ announced = [p \in Positions(processes) |-> {}]
    /\ locks = {}
    /\ threads = [bus |-> [at |-> "idle"], ack |-> [at |-> "idle"]]
    /\ driver = NoDriver

\* "bus" enters next_event's poll, interface_message or message_response.
BusStart(fn, args) ==
    /\ threads.bus.at = "idle"
    /\ threads' = [threads EXCEPT !.bus = [at |-> "running", fn |-> fn, args |-> args,
                                           i |-> 1, k |-> 1, ok |-> FALSE]]
    /\ UNCHANGED <<processes, caps, aborted, op, ret, calls, trace, pre, acked,
                   announced, locks, driver>>

\* The script of the adapter function "bus" is in, at adapter t.i.
BusScript(t) ==
    CASE t.fn = "next_event" -> poll_next_event_script(t.i, t.args.yields[t.i])
      [] t.fn = "interface_message" -> deliver_interface_message_script(t.i)
      [] t.fn = "message_response" -> deliver_response_script(t.i)

\* The effect of that adapter function on the collection as it is now.
BusEffect(t) ==
    CASE t.fn = "next_event" ->
             LET r == poll_next_event(processes[t.i], t.i, t.args.yields[t.i])
             IN [processes |-> [processes EXCEPT ![t.i] = r.adapter],
                 calls |-> <<>>, ok |-> r.event.type # "Pending"]
      [] t.fn = "interface_message" ->
             LET r == deliver_interface_message(processes[t.i], t.i, t.args.interface,
                                                t.args.message_id, t.args.emitter_pid,
                                                t.args.message)
             IN [processes |-> processes, calls |-> r.calls, ok |-> r.ok]
      [] t.fn = "message_response" ->
             LET r == deliver_response(processes[t.i], t.i, t.args.message_id,
                                       t.args.response)
             IN [processes |-> [processes EXCEPT ![t.i] = r.adapter],
                 calls |-> r.calls, ok |-> r.ok]

\* One lock operation, or the effect, of the adapter function "bus" is in.
\* When the function returns, the loop of the collection ends at the first
\* adapter that was ready or accepted, goes on to the next adapter
\* otherwise, and after the last one returns Pending (next_event) or
\* panics (the two routers).
BusStep ==
    /\ threads.bus.at = "running"
    /\ LET t == threads.bus
           script == BusScript(t)
           ins == script[t.k]
           e == BusEffect(t)
           ok == IF ins.do = "effect" THEN e.ok ELSE t.ok
           returns == t.k = Len(script)
           finished == returns /\ (ok \/ t.i = Len(processes))
       IN /\ ins.do = "acquire" => Holder(ins.lock) = {}
          /\ locks' = CASE ins.do = "acquire" -> locks \cup {[lock |-> ins.lock, by |-> "bus"]}
                         [] ins.do = "release" -> locks \ {[lock |-> ins.lock, by |-> "bus"]}
                         [] OTHER -> locks
          /\ processes' = IF ins.do = "effect" THEN e.processes ELSE processes
          /\ calls' = IF ins.do = "effect" THEN calls \o e.calls ELSE calls
          /\ aborted' = (aborted \/ (finished /\ ~ok /\ t.fn # "next_event"))
          /\ threads' = [threads EXCEPT !.bus =
                 IF finished
                 THEN [at |-> "done", fn |-> t.fn, args |-> t.args,
                       by |-> IF ok THEN t.i ELSE 0]
                 ELSE IF returns
                 THEN [t EXCEPT !.i = @ + 1, !.k = 1, !.ok = FALSE]
                 ELSE [t EXCEPT !.k = @ + 1, !.ok = ok]]
    /\ UNCHANGED <<caps, op, ret, trace, pre, acked, announced, driver>>

\* "ack" calls acknowledge(id) on the capability, which moves into the call.
AckStart(write, id) ==
    /\ threads.ack.at = "idle"
    /\ write \in caps
    /\ caps' = caps \ {write}
    /\ threads' = [threads EXCEPT !.ack = [at |-> "running", write |-> write, id |-> id,
                                           k |-> 1, was_inserted |-> FALSE]]
    /\ UNCHANGED <<processes, aborted, op, ret, calls, trace, pre, acked,
                   announced, locks, driver>>

\* One statement or lock operation of acknowledge; the debug_assert! comes
\* after the guard is gone.
AckStep(debug_assertions) ==
    /\ threads.ack.at = "running"
    /\ LET t == threads.ack
           script == acknowledge_script(t.write)
           ins == script[t.k]
           steps == acknowledge_steps(processes, t.write, t.id)
           was_inserted == IF ins.do = "effect" THEN steps[2].was_inserted
                           ELSE t.was_inserted
           returns == t.k = Len(script)
       IN /\ ins.do = "acquire" => Holder(ins.lock) = {}
          /\ locks' = CASE ins.do = "acquire" -> locks \cup {[lock |-> ins.lock, by |-> "ack"]}
                         [] ins.do = "release" -> locks \ {[lock |-> ins.lock, by |-> "ack"]}
                         [] OTHER -> locks
          /\ processes' = IF ins.do = "effect" THEN steps[2].processes ELSE processes
          /\ calls' = IF ins.do = "forward" THEN calls \o steps[1].calls ELSE calls
          /\ aborted' = (aborted \/ (returns /\ debug_assertions /\ ~was_inserted))
          /\ threads' = [threads EXCEPT !.ack =
                 IF returns
                 THEN [at |-> "done", write |-> t.write, id |-> t.id]
                 ELSE [t EXCEPT !.k = @ + 1, !.was_inserted = was_inserted]]
    /\ UNCHANGED <<caps, op, ret, trace, pre, acked, announced, driver>>

NextLocks ==
    \/ \E ready \in SUBSET Positions(processes), yielded \in LockEvents :
           BusStart("next_event",
                    [yields |-> [i \in Positions(processes) |->
                                    IF i \in ready THEN yielded ELSE Pending]])
    \/ \E interface \in InterfaceHashes, message \in Payloads :
           BusStart("interface_message",
                    [interface |-> interface, message_id |-> None,
                     emitter_pid |-> 1, message |-> message])
    \/ \E message_id \in MessageIds, response \in Responses :
           BusStart("message_response",
                    [message_id |-> message_id, response |-> response])
    \/ BusStep
    \/ \E write \in caps, id \in MessageIds : AckStart(write, id)
    \/ \E debug_assertions \in BOOLEAN : AckStep(debug_assertions)

SpecLocks == InitLocks /\ [][NextLocks]_vars

\* ------------------------------------------------- the kernel's main loop
\* kernel/src/main.rs: the loop around system.run().  The system, the
\* programs it runs and the TCP backend are the environment: what
\* system.run() returns, the parameters of an extrinsic call, whether the
\* memory accesses and conversions of a handler succeed, and the event
\* tcp.next_event() yields are inputs.
Extrinsics ==
    {"ArgsGet", "ArgsSizesGet", "ClockTimeGet", "EnvironGet", "EnvironSizesGet",
     "FdPrestatGet", "FdPrestatDirName", "FdFdstatGet", "FdWrite", "ProcExit"}

\* The extrinsics whose arm is not unimplemented!().
HandledExtrinsics ==
    {"ArgsSizesGet", "EnvironGet", "EnvironSizesGet", "FdPrestatGet", "FdWrite"}

ThreadIds == 1..2
TcpMessageIds == 1..2

\* An extrinsic call as the handlers look at it: how many parameters it
\* has, the value of params[2] (fd_write's number of buffers), and whether
\* every try_into, write_memory and read_memory of the handler succeeds.
ExtrinsicCalls ==
    [type : {"ThreadWaitExtrinsic"}, extrinsic : Extrinsics, thread_id : ThreadIds,
     params_len : {2, 4}, iovs_len : {1, 2}, accesses_ok : BOOLEAN]

\* SystemRunOutcome values; `decodes` says whether the message of an
\* InterfaceMessage decodes as a TcpMessage, and "Other" stands for every
\* variant the loop does not name.
SystemRunOutcomes ==
    ExtrinsicCalls
    \cup [type : {"InterfaceMessage"}, event_id : TcpMessageIds, decodes : BOOLEAN]
    \cup {[type |-> "Idle"], [type |-> "ProgramFinished"], [type |-> "ProgramCrashed"],
          [type |-> "Other"]}

\* The arm of the match for a ThreadWaitExtrinsic: the calls of
\* system.resolve_extrinsic_call it makes, or a panic (unimplemented!(), a
\* failed assert_eq!, an unwrap of an Err).
handle_extrinsic(call) ==
    LET resolve == [panicked |-> FALSE, resolved |-> <<call.thread_id>>]
        panic == [panicked |-> TRUE, resolved |-> <<>>]
    IN CASE call.extrinsic \in {"ArgsSizesGet", "EnvironGet", "EnvironSizesGet",
                                "FdPrestatGet"} ->
                IF call.params_len = 2 /\ call.accesses_ok THEN resolve ELSE panic
         [] call.extrinsic = "FdWrite" ->
                IF call.params_len = 4 /\ call.iovs_len = 1 /\ call.accesses_ok
                THEN resolve
                ELSE panic
         [] OTHER -> panic

InitDriver ==
    /\ processes = <<>>
    /\ caps = {}
    /\ aborted = FALSE
    /\ op = Idle
    /\ ret = NoValue
    /\ calls = <<>>
    /\ trace = <<>>
    /\ pre = <<>>
    /\ acked = <<>>
    /\ announced = <<>>
    /\ locks = {}
    /\ threads = NoThreads
    /\ driver = [pc |-> "run", outcome |-> [type |-> "none"], resolved |-> <<>>,
                 handled |-> <<>>, awaited |-> FALSE, answered |-> <<>>]

\* system.run() returns `outcome` and the match on it runs: an extrinsic
\* arm resolves the call and continues, InterfaceMessage hands the message
\* to the TCP state and continues, Idle falls out of the match to the
\* await, anything else breaks out of the inner loop.
SystemRun(outcome) ==
    /\ driver.pc = "run"
    /\ driver' =
           LET fresh == [driver EXCEPT !.outcome = outcome, !.resolved = <<>>,
                                       !.handled = <<>>, !.awaited = FALSE,
                                       !.answered = <<>>]
           IN CASE outcome.type = "ThreadWaitExtrinsic" ->
                       LET r == handle_extrinsic(outcome)
                       IN [fresh EXCEPT !.resolved = r.resolved,
                                        !.pc = IF r.panicked THEN "panicked" ELSE "run"]
                [] outcome.type = "InterfaceMessage" ->
                       IF outcome.decodes
                       THEN [fresh EXCEPT !.handled = <<outcome.event_id>>]
                       ELSE [fresh EXCEPT !.pc = "panicked"]
                [] outcome.type = "Idle" -> [fresh EXCEPT !.pc = "tcp", !.awaited = TRUE]
                [] OTHER -> [fresh EXCEPT !.pc = "left"]
    /\ aborted' = (driver'.pc = "panicked")
    /\ UNCHANGED <<processes, caps, op, ret, calls, trace, pre, acked, announced,
                   locks, threads>>

\* tcp.next_event() completes with a response for `msg_id`, which is passed
\* to system.answer_event; the inner loop starts over.
TcpNextEvent(msg_id) ==
    /\ driver.pc = "tcp"
    /\ driver' = [driver EXCEPT !.answered = Append(@, msg_id), !.pc = "run"]
    /\ UNCHANGED <<processes, caps, aborted, op, ret, calls, trace, pre, acked,
                   announced, locks, threads>>

\* The match on the value the inner loop broke with: a finished or crashed
\* program is printed and the outer loop goes round, anything else panics.
OuterMatch ==
    /\ driver.pc = "left"
    /\ driver' = [driver EXCEPT
                      !.pc = IF driver.outcome.type \in {"ProgramFinished", "ProgramCrashed"}
                             THEN "run" ELSE "panicked",
                      !.outcome = [type |-> "none"]]
    /\ aborted' = (driver'.pc = "panicked")
    /\ UNCHANGED <<processes, caps, op, ret, calls, trace, pre, acked, announced,
                   locks, threads>>

NextDriver ==
    \/ \E outcome \in SystemRunOutcomes : SystemRun(outcome)
    \/ \E msg_id \in TcpMessageIds : TcpNextEvent(msg_id)
    \/ OuterMatch

SpecDriver == InitDriver /\ [][NextDriver]_vars

\* ------------------------------------------------------------- properties
ProgramCall(pos, fn, args) == [pos |-> pos, fn |-> fn, args |-> args]

\* Positions of `procs` whose adapter has registered `interface`.
Registered(procs, interface) ==
    {p \in Positions(procs) : interface \in procs[p].registered_interfaces}

\* Positions of `procs` whose adapter expects a response to `message_id`.
Expecting(procs, message_id) ==
    {p \in Positions(procs) : message_id \in procs[p].expected_responses}

DuplicatePush == op.name = "push" /\ op.pid \in PidsOf(pre)

\* C1: a push of a pid the collection already contains fails and leaves the
\* sequence of (pid, adapter) pairs as it was; the pids of the collection
\* are pairwise distinct in every reachable state.
C1_PidsUnique ==
    /\ \A i, j \in Positions(processes) :
           processes[i].pid = processes[j].pid => i = j
    /\ DuplicatePush => (ret # Unit /\ processes = pre)

C1_Witness == DuplicatePush /\ Len(pre) = MaxProcs

\* C2 as stated: a push of a pid already present hands an error value back
\* to the caller, does not abort, and the collection stays usable.
C2_DuplicateReturnsError == DuplicatePush => (ret # Panic /\ ~aborted)

\* C2 amended: a push of a pid already present panics on the assert! of
\* push (nothing is returned and the collection is as it was); every other
\* push returns () having appended a fresh adapter.
C2_DuplicatePanics ==
    op.name = "push" =>
        IF op.pid \in PidsOf(pre)
        THEN ret = Panic /\ aborted /\ processes = pre
        ELSE ret = Unit /\ ~aborted /\ processes = Append(pre, NewAdapter(op.pid))

C2_Witness == DuplicatePush /\ aborted /\ Len(pre) >= 1

\* C3: deliver_response(m, _) on an adapter returns Ok exactly when m was
\* acknowledged on one of that adapter's capabilities and has not been
\* accepted since, and an accepted m is no longer expected by that adapter.
C3_ResponseSingleShot ==
    op.name = "message_response" =>
        \A k \in 1..Len(trace) :
            /\ trace[k].ok = trace[k].owed
            /\ trace[k].ok =>
                   op.message_id \notin processes[trace[k].pos].expected_responses

C3_Witness ==
    /\ op.name = "message_response"
    /\ \E k \in 2..Len(trace) :
           /\ trace[k].ok /\ trace[k].owed
           /\ processes[trace[k].pos].expected_responses # {}

\* C4: when message_response(id, r) reaches an adapter on whose capability
\* id was acknowledged, that adapter's program gets message_response(id, r)
\* with the very r the kernel passed, and it is the only call made.
C4_ResponseRoundTrip ==
    op.name = "message_response" =>
        \A k \in 1..Len(trace) :
            trace[k].owed =>
                calls = <<ProgramCall(trace[k].pos, "message_response",
                                      <<op.message_id, op.response>>)>>

C4_Witness ==
    /\ op.name = "message_response"
    /\ op.response # Ok(EmptyMessage)
    /\ \E k \in 2..Len(trace) : trace[k].owed

\* C5: an interface_message(H, ...) is delivered to the program at the
\* first position whose adapter has registered H, with the arguments of the
\* call, and to no other program.
C5_FirstMatchRouting ==
    op.name = "interface_message" =>
        LET regs == Registered(pre, op.interface) IN
        regs # {} =>
            \E i \in regs :
                /\ \A j \in regs : i <= j
                /\ calls = <<ProgramCall(i, "interface_message",
                                         <<op.interface, op.message_id,
                                           op.emitter_pid, op.message>>)>>

C5_Witness ==
    /\ op.name = "interface_message"
    /\ Cardinality(Registered(pre, op.interface)) >= 2
    /\ op.message # EmptyMessage

\* C6 as stated: interface_message(H, ...) reaches every program that has
\* emitted a decodable Register(H) returned by next_event, whatever the
\* other adapters registered.
C6_EveryRegistrantReached ==
    op.name = "interface_message" =>
        \A p \in Positions(pre) :
            op.interface \in announced[p] =>
                \E k \in 1..Len(calls) :
                    calls[k].pos = p /\ calls[k].fn = "interface_message"

\* C6 amended: interface_message(H, ...) reaches the program that emitted a
\* decodable Register(H) returned by next_event provided no adapter at an
\* earlier position did so too.
C6_FirstRegistrantReached ==
    op.name = "interface_message" =>
        \A p \in Positions(pre) :
            (/\ op.interface \in announced[p]
             /\ \A q \in 1..(p - 1) : op.interface \notin announced[q]) =>
                calls = <<ProgramCall(p, "interface_message",
                                      <<op.interface, op.message_id,
                                        op.emitter_pid, op.message>>)>>

C6_Witness ==
    /\ op.name = "interface_message"
    /\ op.interface # INTERFACE
    /\ \E p \in 2..Len(pre) :
           /\ op.interface \in announced[p]
           /\ \A q \in 1..(p - 1) : op.interface \notin announced[q]

\* C7: no operation removes an interface from an adapter's registered
\* set, nor the adapter from the collection, and an adapter offered a
\* message on an interface of its registered set accepts it.
C7_RegistrationMonotonic ==
    op # Idle =>
        /\ Len(pre) <= Len(processes)
        /\ \A p \in Positions(pre) :
               pre[p].registered_interfaces \subseteq processes[p].registered_interfaces
        /\ op.name = "interface_message" =>
               \A k \in 1..Len(trace) :
                   trace[k].ok =
                       (op.interface \in processes[trace[k].pos].registered_interfaces)

C7_Witness ==
    /\ op.name = "next_event"
    /\ \E p \in Positions(pre) :
           /\ pre[p].registered_interfaces # {}
           /\ pre[p].registered_interfaces # processes[p].registered_interfaces

\* C8: an interface_message for an interface no adapter has registered
\* panics, and no program is called.
C8_UnroutableInterfaceMessage ==
    (op.name = "interface_message" /\ Registered(pre, op.interface) = {}) =>
        (ret = Panic /\ aborted /\ calls = <<>>)

C8_Witness ==
    /\ op.name = "interface_message"
    /\ Registered(pre, op.interface) = {}
    /\ \E p \in Positions(pre) : pre[p].registered_interfaces # {}

\* C9: a message_response for an id no adapter expects panics; no program
\* is called and no expected_responses set changes.
C9_UnroutableResponse ==
    (op.name = "message_response" /\ Expecting(pre, op.message_id) = {}) =>
        (ret = Panic /\ aborted /\ calls = <<>> /\ processes = pre)

C9_Witness ==
    /\ op.name = "message_response"
    /\ Expecting(pre, op.message_id) = {}
    /\ \E p \in Positions(pre) : pre[p].expected_responses # {}

\* C10: process_destroyed(p) calls process_destroyed(p) on every program of
\* the collection once, in insertion order.
C10_DestroyedBroadcast ==
    op.name = "process_destroyed" =>
        calls = [i \in Positions(processes) |->
                    ProgramCall(i, "process_destroyed", <<op.pid>>)]

C10_Witness ==
    /\ op.name = "process_destroyed"
    /\ Len(processes) >= 2
    /\ op.pid \notin PidsOf(processes)
    /\ \E p \in Positions(processes) :
           /\ processes[p].expected_responses # {}
           /\ processes[p].registered_interfaces = {}

\* C11: a poll of next_event in which no adapter is ready (the collection is
\* empty, or every program is pending) returns Pending after polling each
\* adapter once, in order; nothing changes and nothing panics.
C11_AllPendingReturnsPending ==
    (op.name = "next_event" /\ op.ready = {}) =>
        /\ ret = [tag |-> "Pending"]
        /\ trace = [i \in Positions(pre) |-> [pos |-> i, ok |-> FALSE]]
        /\ processes = pre
        /\ ~aborted

C11_Witness ==
    /\ op.name = "next_event"
    /\ op.ready = {}
    /\ Len(pre) = MaxProcs
    /\ ret.tag = "Pending"

\* No message id is expected by two adapters of `procs`.
UniqueExpected(procs) ==
    \A i, j \in Positions(procs) :
        i # j => procs[i].expected_responses \cap procs[j].expected_responses = {}

\* C12 as stated: whatever ids the kernel acknowledges with, a message id
\* is in the expected_responses set of at most one adapter.
C12_ExpectedAlwaysUnique == UniqueExpected(processes)

\* C12 amended: the expected_responses sets stay pairwise disjoint as long
\* as the kernel does not acknowledge with an id that another adapter still
\* expects; no other operation can make two adapters expect the same id.
C12_UniqueUnlessReused ==
    op # Idle =>
        ((/\ UniqueExpected(pre)
          /\ op.name = "acknowledge" =>
                 Expecting(pre, op.id) \subseteq {op.write.expected_responses})
             => UniqueExpected(processes))

C12_Witness ==
    /\ op.name = "acknowledge"
    /\ Expecting(pre, op.id) = {}
    /\ \E p \in Positions(pre) :
           p # op.write.expected_responses /\ pre[p].expected_responses # {}
    /\ UniqueExpected(processes)

\* C13: a program is handed message_response(id, _) only if id was
\* acknowledged on a capability of its own adapter and has not been accepted
\* since; in particular the owner of a capability that is still
\* unacknowledged gets no response on account of that capability.
C13_ResponseOnlyIfAcknowledged ==
    \A c \in 1..Len(calls) :
        calls[c].fn = "message_response" =>
            /\ op.name = "message_response"
            /\ calls[c].args[1] = op.message_id
            /\ \E k \in 1..Len(trace) :
                   trace[k].pos = calls[c].pos /\ trace[k].owed

C13_Witness ==
    /\ op.name = "message_response"
    /\ \E w \in caps : \E k \in 1..Len(trace) :
           /\ trace[k].pos = w.expected_responses
           /\ ~trace[k].ok
           /\ pre[trace[k].pos].expected_responses # {}
    /\ Len(calls) = 1

\* C14: whenever a program's interface_message(H, ...) is called, H is in
\* the registered_interfaces set of that program's adapter.
C14_OnlyRegisteredReceive ==
    \A c \in 1..Len(calls) :
        calls[c].fn = "interface_message" =>
            calls[c].args[1] \in processes[calls[c].pos].registered_interfaces

C14_Witness ==
    /\ op.name = "interface_message"
    /\ \E c \in 1..Len(calls) :
           /\ calls[c].pos >= 2
           /\ processes[1].registered_interfaces # {}

\* The last poll of next_event returned an Emit sent on the reserved
\* interface whose body does not decode as a registration record.
UndecodableRegistration ==
    /\ op.name = "next_event"
    /\ op.ready # {}
    /\ op.yielded.type = "Emit"
    /\ op.yielded.interface = INTERFACE
    /\ DecodeInterfaceMessage(op.yielded.message).tag = "Err"

\* C15: an Emit on the reserved interface whose body does not decode adds
\* no interface to any registered set and is still returned by next_event
\* with its message, and with its capability if the program gave one; a
\* message on an interface that no adapter has registered is then still
\* unroutable.
C15_UndecodableRegistrationIgnored ==
    UndecodableRegistration =>
        /\ \A p \in Positions(pre) :
               processes[p].registered_interfaces = pre[p].registered_interfaces
        /\ ret.tag = "Ready"
        /\ ret.event.type = "Emit"
        /\ ret.event.interface = INTERFACE
        /\ ret.event.message = op.yielded.message
        /\ IF op.yielded.message_id_write = None
           THEN ret.event.message_id_write = None
           ELSE /\ ret.event.message_id_write # None
                /\ ret.event.message_id_write[1].inner = op.yielded.message_id_write
                /\ ret.event.message_id_write[1] \in caps
        /\ \A h \in InterfaceHashes :
               Registered(pre, h) = {} =>
                   interface_message(processes, h, None, 1, EmptyMessage).panicked

C15_Witness ==
    /\ UndecodableRegistration
    /\ op.yielded.message # EmptyMessage
    /\ op.yielded.message_id_write # None
    /\ \E h \in InterfaceHashes : Registered(processes, h) = {}

\* C16 (under SpecAcknowledge): acknowledging a capability that was
\* acknowledged before is refused: it panics, the program is not called and
\* no expected_responses set changes.
C16_SecondAcknowledgeRefused ==
    (op.name = "acknowledge" /\ op.again) =>
        (aborted /\ calls = <<>> /\ processes = pre)

C16_Witness ==
    /\ op.name = "acknowledge"
    /\ op.again
    /\ op.id \notin pre[op.write.expected_responses].expected_responses

FirstReady(ready) == CHOOSE i \in ready : \A j \in ready : i <= j

\* C18 as stated: every poll of next_event polls every adapter of the
\* collection once, in insertion order, also when an earlier adapter was
\* ready.
C18_EveryAdapterPolled ==
    op.name = "next_event" =>
        /\ Len(trace) = Len(pre)
        /\ \A k \in 1..Len(trace) : trace[k].pos = k

\* C18 amended: a poll of next_event polls the adapters in insertion order,
\* each at most once, up to and including the first one that is ready; the
\* adapters after it are not polled.  All are polled when none is ready.
C18_PolledUpToFirstReady ==
    op.name = "next_event" =>
        LET last == IF op.ready = {} THEN Len(pre) ELSE FirstReady(op.ready)
        IN trace = [k \in 1..last |-> [pos |-> k, ok |-> k \in op.ready]]

C18_Witness ==
    /\ op.name = "next_event"
    /\ Len(pre) >= 2
    /\ op.ready = Positions(pre)
    /\ Len(trace) = 1

\* The event the collection hands out for what the program at position f,
\* added under pid, yielded.
Lifted(yielded, pid, f) ==
    IF yielded.type = "Emit"
    THEN [type |-> "Emit", emitter_pid |-> pid,
          interface |-> yielded.interface, message |-> yielded.message,
          message_id_write |->
              IF yielded.message_id_write = None
              THEN None
              ELSE Some([inner |-> yielded.message_id_write,
                         expected_responses |-> f])]
    ELSE yielded

\* C19: a poll of next_event in which some adapter is ready returns the event
\* of the first ready adapter in insertion order; an Emit carries the pid that
\* adapter was added under, the interface and the message the program
\* yielded, and a capability exactly when the program's Emit carried one;
\* acknowledging that capability makes one acknowledge call, with the same
\* identifier, on the capability the program yielded.
C19_FirstReadyEventLifted ==
    /\ (op.name = "next_event" /\ op.ready # {}) =>
           LET f == FirstReady(op.ready)
           IN /\ ret = [tag |-> "Ready",
                        event |-> Lifted(op.yielded, pre[f].pid, f)]
              /\ trace[Len(trace)] = [pos |-> f, ok |-> TRUE]
    /\ op.name = "acknowledge" =>
           calls = <<ProgramCall(op.write.expected_responses, "acknowledge",
                                 <<op.write.inner[1], op.id>>)>>

C19_Witness ==
    /\ op.name = "next_event"
    /\ Cardinality(op.ready) >= 1
    /\ 1 \notin op.ready
    /\ ret.tag = "Ready"
    /\ ret.event.type = "Emit"
    /\ ret.event.message_id_write # None

\* C20: whenever the adapter at the first position is ready, the poll of
\* next_event returns that adapter's event and polls no other adapter, so
\* the adapters behind it are left exactly as they were; while the first
\* adapter stays ready this holds of every poll, however ready they are.
C20_HotFirstAdapterStarvesLater ==
    (op.name = "next_event" /\ 1 \in op.ready) =>
        /\ trace = <<[pos |-> 1, ok |-> TRUE]>>
        /\ ret = [tag |-> "Ready", event |-> Lifted(op.yielded, pre[1].pid, 1)]
        /\ Len(processes) = Len(pre)
        /\ \A p \in 2..Len(pre) : processes[p] = pre[p]

C20_Witness ==
    /\ op.name = "next_event"
    /\ Len(pre) >= 2
    /\ {1, 2} \subseteq op.ready
    /\ ret.tag = "Ready"
    /\ ret.event.type = "Emit"
    /\ ret.event.emitter_pid = pre[1].pid

\* C21: a poll of the next_event future that returns Pending leaves the
\* collection as it was: the same adapters in the same order, each with the
\* registered_interfaces and expected_responses it had; no program is called,
\* no capability is handed out and nothing panics.  The future itself holds
\* nothing but the reference to the collection, so dropping it after such
\* polls leaves the collection as it was when the future was created.
C21_PendingPollLeavesCollection ==
    (op.name = "next_event" /\ ret.tag = "Pending") =>
        /\ processes = pre
        /\ calls = <<>>
        /\ ~aborted
        /\ \A w \in caps : w.inner # None

C21_Witness ==
    /\ op.name = "next_event"
    /\ ret.tag = "Pending"
    /\ Len(pre) = MaxProcs
    /\ \E p \in Positions(pre) :
           pre[p].registered_interfaces # {} /\ pre[p].expected_responses # {}

\* Positions of the adapters whose poll returned Ready during the last poll
\* of next_event.
ReadyPolls == {trace[k].pos : k \in {j \in 1..Len(trace) : trace[j].ok}}

\* C22: every event an adapter's poll returns Ready is the event that very
\* poll of next_event returns, attributed to that adapter, and a poll of
\* next_event takes an event from at most one adapter; a program that is not
\* polled, or is pending, gives up no event.  So the events attributed to one
\* adapter come out one for one in the order its program yielded them.
C22_ReadyPollSurfaces ==
    op.name = "next_event" =>
        /\ Cardinality(ReadyPolls) <= 1
        /\ \A p \in ReadyPolls :
               /\ p \in op.ready
               /\ ret = [tag |-> "Ready", event |-> Lifted(op.yielded, pre[p].pid, p)]
        /\ ret.tag = "Ready" => ReadyPolls # {}

C22_Witness ==
    /\ op.name = "next_event"
    /\ ReadyPolls = {2}
    /\ op.yielded.type = "CancelMessage"
    /\ ret.tag = "Ready"

\* C23: no operation removes a (pid, adapter) pair or moves one: the pairs
\* an operation found are afterwards at the same positions under the same
\* pids.  Only push adds a pair; a push that succeeds puts the new pair last,
\* with empty registered_interfaces and expected_responses, and leaves the
\* adapters that were there as they were.
C23_MembershipAppendOnly ==
    op # Idle =>
        /\ Len(pre) <= Len(processes)
        /\ \A p \in Positions(pre) : processes[p].pid = pre[p].pid
        /\ IF op.name = "push" /\ ret = Unit
           THEN /\ Len(processes) = Len(pre) + 1
                /\ processes[Len(processes)] = NewAdapter(op.pid)
                /\ \A p \in Positions(pre) : processes[p] = pre[p]
           ELSE Len(processes) = Len(pre)

C23_Witness ==
    /\ op.name = "push"
    /\ ret = Unit
    /\ Len(pre) >= 1
    /\ pre[1].registered_interfaces # {}
    /\ pre[1].expected_responses # {}

\* C24 (under SpecAcknowledgeSteps): acknowledge(id) first hands id to the
\* program's own capability and only then inserts it.  Once the program has
\* been told, and before the insert, the collection is as it was before the
\* call, so a message_response(id, _) is unroutable if it was before;
\* after the insert the issuing adapter expects id, the collection is what
\* acknowledge as a whole leaves, and message_response(id, _) is routable.
C24_ForwardThenInsert ==
    (op.name = "acknowledge" /\ op.at \in {"forwarded", "inserted"}) =>
        LET pos == op.write.expected_responses
            call == ProgramCall(pos, "acknowledge", <<op.write.inner[1], op.id>>)
        IN /\ calls = <<call>>
           /\ op.at = "forwarded" =>
                  /\ processes = pre
                  /\ Expecting(pre, op.id) = {} =>
                         message_response(processes, op.id, Err).panicked
           /\ op.at = "inserted" =>
                  /\ processes = [pre EXCEPT ![pos].expected_responses = @ \cup {op.id}]
                  /\ processes = acknowledge(pre, op.write, op.id).processes
                  /\ ~message_response(processes, op.id, Err).panicked

C24_Witness ==
    /\ op.name = "acknowledge"
    /\ op.at = "forwarded"
    /\ calls # <<>>
    /\ Expecting(processes, op.id) = {}
    /\ \E p \in Positions(processes) : processes[p].expected_responses # {}

\* The last poll of next_event returned an Emit on the reserved interface
\* whose body decodes as a registration record.
RegistrationReturned ==
    /\ op.name = "next_event"
    /\ ret.tag = "Ready"
    /\ ret.event.type = "Emit"
    /\ ret.event.interface = INTERFACE
    /\ DecodeInterfaceMessage(ret.event.message).tag = "Ok"

\* C25: when next_event returns an Emit on the reserved interface whose
\* body decodes as Register(H), H is in the registered_interfaces of the
\* emitting adapter at that moment, with or without a capability; and it
\* stays there whatever is done afterwards with the capability or the
\* event (every hash so returned is registered in every later state).
C25_RegisteredAtPollTime ==
    /\ RegistrationReturned =>
           DecodeInterfaceMessage(ret.event.message).v
               \in processes[FirstReady(op.ready)].registered_interfaces
    /\ \A p \in Positions(processes) :
           announced[p] \subseteq processes[p].registered_interfaces

C25_Witness ==
    /\ RegistrationReturned
    /\ ret.event.message_id_write # None
    /\ ret.event.message_id_write[1] \in caps
    /\ DecodeInterfaceMessage(ret.event.message).v
           \notin pre[FirstReady(op.ready)].registered_interfaces

\* The last poll of next_event took a CancelMessage from a program.
CancelYielded ==
    /\ op.name = "next_event"
    /\ op.ready # {}
    /\ op.yielded.type = "CancelMessage"

\* C26: a CancelMessage{id} a program yields is returned by next_event with
\* the same id and changes nothing in the collection; if the adapter
\* expected id it still does, so a response to id offered to it afterwards
\* is accepted and the program is handed message_response(id, r) with the
\* response as offered.
C26_CancelHasNoLocalEffect ==
    CancelYielded =>
        LET f == FirstReady(op.ready)
            id == op.yielded.message_id
        IN /\ ret = [tag |-> "Ready",
                     event |-> [type |-> "CancelMessage", message_id |-> id]]
           /\ processes = pre
           /\ calls = <<>>
           /\ id \in pre[f].expected_responses =>
                  \A r \in Responses :
                      LET d == deliver_response(processes[f], f, id, r)
                      IN /\ d.ok
                         /\ d.calls = <<ProgramCall(f, "message_response", <<id, r>>)>>

C26_Witness ==
    /\ CancelYielded
    /\ op.yielded.message_id \in pre[FirstReady(op.ready)].expected_responses
    /\ FirstReady(op.ready) >= 2

\* C27: an adapter that declines an interface_message gives the body back as
\* it got it and is left as it was, so the program that accepts
\* interface_message(H, mid, pid, body) is called with exactly
\* (H, mid, pid, body), however many adapters declined before it.
C27_DeclinedBodyHandedOn ==
    op.name = "interface_message" =>
        /\ processes = pre
        /\ \A k \in 1..Len(trace) :
               ~trace[k].ok =>
                   deliver_interface_message(pre[trace[k].pos], trace[k].pos,
                                             op.interface, op.message_id,
                                             op.emitter_pid, op.message).back
                       = op.message
        /\ ret = Unit =>
               calls = <<ProgramCall(trace[Len(trace)].pos, "interface_message",
                                     <<op.interface, op.message_id,
                                       op.emitter_pid, op.message>>)>>

C27_Witness ==
    /\ op.name = "interface_message"
    /\ ret = Unit
    /\ Len(trace) >= 2
    /\ ~trace[1].ok
    /\ op.message # EmptyMessage
    /\ op.message_id # None

\* What the last poll of next_event may add to the registered_interfaces of
\* the adapter at position p: the hash carried in the body of a decodable
\* Emit on the reserved interface, if p is the adapter that yielded it.
NewlyRegistered(p) ==
    IF /\ op.ready # {}
       /\ p = FirstReady(op.ready)
       /\ op.yielded.type = "Emit"
       /\ op.yielded.interface = INTERFACE
       /\ DecodeInterfaceMessage(op.yielded.message).tag = "Ok"
    THEN {DecodeInterfaceMessage(op.yielded.message).v}
    ELSE {}

\* C28: a poll of next_event changes registered_interfaces only by adding,
\* to the set of the adapter whose program yielded a decodable Register(H)
\* on the reserved interface, the hash H carried in the body.  An Emit on
\* another interface changes no set even if its body decodes as a
\* registration record, and neither do Answer and CancelMessage.
C28_RegistrationScoped ==
    op.name = "next_event" =>
        \A p \in Positions(pre) :
            processes[p].registered_interfaces =
                pre[p].registered_interfaces \cup NewlyRegistered(p)

C28_Witness ==
    /\ op.name = "next_event"
    /\ Len(pre) >= 2
    /\ op.ready # {}
    /\ op.yielded.type = "Emit"
    /\ op.yielded.interface # INTERFACE
    /\ DecodeInterfaceMessage(op.yielded.message).tag = "Ok"
    /\ DecodeInterfaceMessage(op.yielded.message).v
           \notin pre[FirstReady(op.ready)].registered_interfaces

\* C29: a message_response(id, _) that is accepted removes id, and nothing
\* else, from the expected_responses of the adapter that accepted it, and
\* changes nothing else in the collection; one that is not accepted changes
\* nothing.  interface_message and process_destroyed change nothing in the
\* collection.  None of the three adds, removes or moves an adapter.
C29_InboundFrame ==
    /\ op.name \in {"interface_message", "process_destroyed"} => processes = pre
    /\ op.name = "message_response" =>
           IF ret = Unit
           THEN LET a == trace[Len(trace)].pos
                IN /\ op.message_id \in pre[a].expected_responses
                   /\ processes =
                          [pre EXCEPT ![a].expected_responses = @ \ {op.message_id}]
           ELSE processes = pre

C29_Witness ==
    /\ op.name = "message_response"
    /\ ret = Unit
    /\ Len(pre) >= 2
    /\ pre[trace[Len(trace)].pos].expected_responses = MessageIds
    /\ pre[trace[Len(trace)].pos].registered_interfaces # {}

\* C30: a capability handed out by a poll of next_event points at the
\* adapter whose program yielded it; acknowledge(id) on it adds id to the
\* expected_responses of that adapter and changes nothing else in the
\* collection, registered_interfaces included.  No other operation adds an
\* id to an expected_responses set, and a pushed adapter starts with none.
C30_ExpectedOnlyByAcknowledge ==
    /\ op.name = "acknowledge" =>
           processes =
               [pre EXCEPT ![op.write.expected_responses].expected_responses =
                               @ \cup {op.id}]
    /\ (op # Idle /\ op.name # "acknowledge") =>
           /\ \A p \in Positions(pre) :
                  processes[p].expected_responses \subseteq pre[p].expected_responses
           /\ \A p \in Positions(processes) \ Positions(pre) :
                  processes[p].expected_responses = {}
    /\ (/\ op.name = "next_event" /\ ret.tag = "Ready"
        /\ ret.event.type = "Emit" /\ ret.event.message_id_write # None) =>
           ret.event.message_id_write[1].expected_responses = FirstReady(op.ready)

C30_Witness ==
    /\ op.name = "acknowledge"
    /\ ~aborted
    /\ op.write.expected_responses = 2
    /\ op.id \notin pre[1].expected_responses
    /\ pre[1].expected_responses # {}
    /\ pre[2].registered_interfaces # {}

\* The position interface_message(H, ...) on `procs` delivers to, as a set
\* (empty when the call panics).
Receivers(procs, interface) ==
    LET r == interface_message(procs, interface, None, 1, <<255>>)
    IN {r.calls[c].pos : c \in 1..Len(r.calls)}

\* C31: when the adapter at position i registers H while an adapter at a
\* later position j, which registered H before and received its messages,
\* still has H registered, interface_message(H, ...) goes to i from then on
\* and no longer to j, and H is still in j's registered_interfaces.  In
\* every interface_message, an adapter that has the interface registered
\* behind an earlier one that has it too is not called.
C31_OwnershipFollowsPosition ==
    /\ op.name = "next_event" =>
           \A i \in Positions(pre) : \A h \in NewlyRegistered(i) \ pre[i].registered_interfaces :
               \A j \in Positions(pre) :
                   (i < j /\ Receivers(pre, h) = {j}) =>
                       /\ Receivers(processes, h) = {i}
                       /\ h \in processes[j].registered_interfaces
    /\ op.name = "interface_message" =>
           \A i, j \in Registered(pre, op.interface) :
               i < j =>
                   /\ \A c \in 1..Len(calls) : calls[c].pos # j
                   /\ op.interface \in processes[j].registered_interfaces

C31_Witness ==
    /\ op.name = "next_event"
    /\ Len(pre) >= 2
    /\ \E h \in NewlyRegistered(1) \ pre[1].registered_interfaces :
           /\ Receivers(pre, h) = {2}
           /\ Receivers(processes, h) = {1}

\* C32 as stated: whatever ids the kernel acknowledges with, the id that
\* acknowledge inserts was not yet in the expected_responses of the issuing
\* adapter, so the debug_assert! of acknowledge holds and acknowledge never
\* panics.
C32_AssertionNeverFails ==
    op.name = "acknowledge" =>
        /\ op.id \notin pre[op.write.expected_responses].expected_responses
        /\ ~aborted

\* The lock operation or statement context c is about to run, if any.
NextInstruction(c) ==
    IF threads[c].at # "running"
    THEN [do |-> "nothing"]
    ELSE IF c = "bus"
    THEN BusScript(threads.bus)[threads.bus.k]
    ELSE acknowledge_script(threads.ack.write)[threads.ack.k]

\* Context c is blocked on a lock another context holds.
Waiting(c) ==
    /\ NextInstruction(c).do = "acquire"
    /\ Holder(NextInstruction(c).lock) # {}

\* The adapter that accepted in the result m of message_response, 0 if none.
AcceptedAt(m) == IF m.panicked THEN 0 ELSE m.visited[Len(m.visited)].pos

\* What acknowledge(id) on `write` and message_response(id, response) leave
\* when one runs as a whole after the other, from the collection `procs`.
SerialOutcomes(procs, write, id, response) ==
    LET ackFirst == message_response(acknowledge(procs, write, id).processes,
                                     id, response)
        respFirst == message_response(procs, id, response)
    IN {[processes |-> ackFirst.processes, by |-> AcceptedAt(ackFirst)],
        [processes |-> acknowledge(respFirst.processes, write, id).processes,
         by |-> AcceptedAt(respFirst)]}

HandledExtrinsicReturned ==
    /\ driver.outcome.type = "ThreadWaitExtrinsic"
    /\ driver.outcome.extrinsic \in HandledExtrinsics

\* The rest of the loop: the TCP backend is awaited only after system.run()
\* returned Idle, and then one message, the one of that TCP event, is
\* answered before system.run() is called again; an InterfaceMessage is
\* handed to the TCP state without an await; any other outcome leaves the
\* inner loop.
DriverLoopShape ==
    /\ driver.awaited => driver.outcome.type = "Idle"
    /\ driver.outcome.type = "Idle" =>
           /\ driver.awaited
           /\ driver.pc \in {"tcp", "run"}
           /\ Len(driver.answered) = IF driver.pc = "run" THEN 1 ELSE 0
    /\ driver.outcome.type # "Idle" => driver.answered = <<>>
    /\ driver.outcome.type \notin {"none", "ThreadWaitExtrinsic", "InterfaceMessage", "Idle"} =>
           driver.pc = "left"
    /\ (HandledExtrinsicReturned /\ driver.pc # "panicked") =>
           /\ driver.resolved = <<driver.outcome.thread_id>>
           /\ driver.pc = "run"

====
